---- MODULE Spec2Model ----
(***************************************************************************)
(* Media_Extractor backend (src/server.ts): the task map activeDownloads,  *)
(* POST /api/download with its extractor and bypass branches, the progress *)
(* stream GET /api/progress/:downloadId and POST /api/info.                *)
(*                                                                         *)
(* Text is modelled as TLA+ strings and the string functions the code uses *)
(* (includes, startsWith, substring, toLowerCase, parseFloat, parseInt,    *)
(* the progress regular expression) are computed character by character.   *)
(* A number is an exact rational [num, den]; den = 0 stands for NaN.       *)
(***************************************************************************)
EXTENDS Integers, Sequences, FiniteSets, TLC

VARIABLES
    activeDownloads,  \* the task map: downloadId -> task record
    request,          \* downloadId -> the body of the POST /api/download request
    pc,               \* downloadId -> position of the download's asynchronous flow
    httpResponse,     \* downloadId -> responses sent to the POST /api/download request
    spawned,          \* downloadId -> argument lists given to spawn('yt-dlp', ...)
    fetched,          \* downloadId -> outbound fetch calls made by the bypass branch
    transfer,         \* downloadId -> bypass transfer bookkeeping (totalSize, downloadedSize, ...)
    files,            \* names of the files in the downloads directory
    proc,             \* downloadId -> the extractor child process of the download
    streams,          \* progress streams: stream id -> [downloadId, timer, ended, closed, frames]
    info,             \* POST /api/info requests: request id -> per-request state
    rejected,         \* the response to the last POST /api/download body the schema refused
    client,           \* the browser client: React state, its EventSource, fetches in flight
    cookies           \* COOKIE_FILE_PATH after startup and the cookie files that exist

vars == <<activeDownloads, request, pc, httpResponse, spawned, fetched, transfer, files, proc,
          streams, info, rejected, client, cookies>>

dlVars == <<activeDownloads, request, pc, httpResponse, spawned, fetched, transfer, files, proc>>

-----------------------------------------------------------------------------
(* Bounds of the model *)

\* most bytes the body of one bypass transfer carries
MaxBytes == 3
\* largest number of bytes in one body chunk
MaxChunkLen == 2
\* most non-terminal frames one progress stream writes
MaxFrames == 2
\* most stderr chunks one extractor process of /api/info emits
MaxStderrChunks == 2

\* identifiers uuidv4() hands out (all of one length, as UUIDs are), in the
\* order they are handed out; identifiers are interchangeable
IdSeq == <<"d1", "d2">>
DownloadIds == {IdSeq[i] : i \in 1..Len(IdSeq)}

-----------------------------------------------------------------------------
(* String functions *)

Min(a, b) == IF a < b THEN a ELSE b

CharAt(s, i) == SubSeq(s, i, i)

\* String.prototype.includes
Includes(s, sub) ==
    \E i \in 1..(Len(s) - Len(sub) + 1) : SubSeq(s, i, i + Len(sub) - 1) = sub

\* String.prototype.startsWith
StartsWith(s, prefix) ==
    /\ Len(s) >= Len(prefix)
    /\ SubSeq(s, 1, Len(prefix)) = prefix

\* String.prototype.substring(0, n)
Substring0(s, n) == SubSeq(s, 1, Min(n, Len(s)))

UpperLetters == "ABCDEFGHIJKLMNOPQRSTUVWXYZ"
LowerLetters == "abcdefghijklmnopqrstuvwxyz"

LowerChar(c) ==
    IF \E i \in 1..26 : CharAt(UpperLetters, i) = c
    THEN CharAt(LowerLetters, CHOOSE i \in 1..26 : CharAt(UpperLetters, i) = c)
    ELSE c

\* String.prototype.toLowerCase
RECURSIVE ToLowerCase(_)
ToLowerCase(s) ==
    IF Len(s) = 0 THEN ""
    ELSE IF Len(s) = 1 THEN LowerChar(s)
    ELSE LET h == Len(s) \div 2
         IN  ToLowerCase(SubSeq(s, 1, h)) \o ToLowerCase(SubSeq(s, h + 1, Len(s)))

Digits == "0123456789"
DigitVal(c) == (CHOOSE i \in 1..10 : CharAt(Digits, i) = c) - 1
\* the character classes \d, \s and [\d.]
DigitChars == {"0", "1", "2", "3", "4", "5", "6", "7", "8", "9"}
SpaceChars == {" ", "\n", "\t", "\r"}
NumChars == DigitChars \cup {"."}

RECURSIVE Pow10(_)
Pow10(n) == IF n = 0 THEN 1 ELSE 10 * Pow10(n - 1)

\* length of the longest run of characters of the class that starts at index i
RECURSIVE RunLen(_, _, _)
RunLen(class, s, i) ==
    IF i <= Len(s) /\ CharAt(s, i) \in class THEN 1 + RunLen(class, s, i + 1) ELSE 0

\* value of a string of decimal digits ("" is 0)
RECURSIVE DigitsVal(_)
DigitsVal(s) ==
    IF Len(s) = 0 THEN 0
    ELSE 10 * DigitsVal(SubSeq(s, 1, Len(s) - 1)) + DigitVal(CharAt(s, Len(s)))

\* a number is the exact rational num/den; den = 0 stands for NaN
NaN == [num |-> 0, den |-> 0]
Num(n) == [num |-> n, den |-> 1]

\* parseFloat on text made of digits and dots: the longest prefix
\* digits [. digits], NaN when that prefix holds no digit
ParseFloat(s) ==
    LET ni == RunLen(DigitChars, s, 1)
        dot == ni + 1 <= Len(s) /\ CharAt(s, ni + 1) = "."
        nf == IF dot THEN RunLen(DigitChars, s, ni + 2) ELSE 0
    IN  IF ni = 0 /\ nf = 0 THEN NaN
        ELSE [num |-> DigitsVal(SubSeq(s, 1, ni)) * Pow10(nf)
                      + DigitsVal(SubSeq(s, ni + 2, ni + 1 + nf)),
              den |-> Pow10(nf)]

\* parseInt(s, 10): optional sign, then the longest run of digits; NaN without a digit
ParseInt(s) ==
    LET ws == RunLen(SpaceChars, s, 1)
        neg == ws + 1 <= Len(s) /\ CharAt(s, ws + 1) = "-"
        sg == IF ws + 1 <= Len(s) /\ CharAt(s, ws + 1) \in {"-", "+"} THEN 1 ELSE 0
        nd == RunLen(DigitChars, s, ws + sg + 1)
        v == DigitsVal(SubSeq(s, ws + sg + 1, ws + sg + nd))
    IN  IF nd = 0 THEN NaN ELSE Num(IF neg THEN 0 - v ELSE v)

\* a > 0 on numbers (false for NaN)
Positive(x) == x.den > 0 /\ x.num > 0

\* a value of the || operator's left side that counts as true, for text
Truthy(rec, field) == field \in DOMAIN rec /\ rec[field] # ""

\* path.join(dir, name)
PathJoin(dir, name) == dir \o "/" \o name

-----------------------------------------------------------------------------
(* The progress regular expression /\[download\]\s+([\d.]+)%/ *)

\* the expression matches with "[download]" at index i
MatchAt(s, i) ==
    LET a == i + 10
        ws == RunLen(SpaceChars, s, a)
        nn == RunLen(NumChars, s, a + ws)
    IN  /\ i + 9 <= Len(s)
        /\ SubSeq(s, i, i + 9) = "[download]"
        /\ ws >= 1
        /\ nn >= 1
        /\ a + ws + nn <= Len(s)
        /\ CharAt(s, a + ws + nn) = "%"

\* output.match(...): the capture group of the leftmost match, "" when none
ProgressMatch(s) ==
    LET hits == {i \in 1..Len(s) : MatchAt(s, i)}
    IN  IF hits = {} THEN ""
        ELSE LET i == CHOOSE j \in hits : \A k \in hits : j <= k
                 b == i + 10 + RunLen(SpaceChars, s, i + 10)
             IN  SubSeq(s, b, b + RunLen(NumChars, s, b) - 1)

\* String.prototype.replace(pattern, by) with a text pattern: the leftmost occurrence only
ReplaceFirst(s, pattern, by) ==
    LET hits == {i \in 1..(Len(s) - Len(pattern) + 1) :
                    SubSeq(s, i, i + Len(pattern) - 1) = pattern}
    IN  IF hits = {} THEN s
        ELSE LET i == CHOOSE j \in hits : \A k \in hits : j <= k
             IN  SubSeq(s, 1, i - 1) \o by \o SubSeq(s, i + Len(pattern), Len(s))

-----------------------------------------------------------------------------
(* Inputs *)

\* format_id values of requests are bypass ids of the fallback list, a plain
\* extractor id, and "cobalt", which lacks the underscore of the bypass prefix
DownloadUrls == {"https://youtu.be/a"}

\* request bodies that pass the schema of POST /api/download: needs_merge is optional
ValidBodies ==
    [url : DownloadUrls, format_id : {"cobalt_audio", "22"}]
        \cup [url : DownloadUrls, format_id : {"22"}, needs_merge : BOOLEAN]
        \cup [url : DownloadUrls, format_id : {"cobalt_video_720", "cobalt"}, needs_merge : {TRUE}]

\* JSON values of a request body, told apart by their type
JString(s) == [string |-> s]
JNumber(n) == [number |-> n]
JBoolean(b) == [boolean |-> b]

\* the JSON body the client sends for the fields of body
JsonBody(body) ==
    [f \in DOMAIN body |-> IF f = "needs_merge" THEN JBoolean(body[f]) ELSE JString(body[f])]

\* bodies the schema of POST /api/download refuses: url missing, url without
\* a scheme, format_id a number, needs_merge a string
InvalidBodies == {
    [format_id |-> JString("22")],
    [url |-> JString("youtu.be/a"), format_id |-> JString("22")],
    [url |-> JString("https://youtu.be/a"), format_id |-> JNumber(22)],
    [url |-> JString("https://youtu.be/a"), format_id |-> JString("22"),
     needs_merge |-> JString("true")] }

SchemeFirstChars ==
    {CharAt(LowerLetters, i) : i \in 1..26} \cup {CharAt(UpperLetters, i) : i \in 1..26}
SchemeChars == SchemeFirstChars \cup DigitChars \cup {"+", "-", "."}
SpecialSchemes == {"http", "https", "ftp", "ws", "wss"}

\* a url check that takes any text that is not empty
IsUrlNonEmpty(s) == Len(s) > 0

\* z.string().url(): the text parses as an absolute URL, that is, it starts
\* with a scheme and a colon, and a special scheme is followed by a host
IsUrl(s) ==
    LET n == RunLen(SchemeChars, s, 1)
        scheme == ToLowerCase(SubSeq(s, 1, n))
        slashes == RunLen({"/", "\\"}, s, n + 2)
        host == RunLen(SchemeChars \cup {"_", "~", "@", ":"}, s, n + 2 + slashes)
    IN  /\ n >= 1
        /\ CharAt(s, 1) \in SchemeFirstChars
        /\ CharAt(s, n + 1) = ":"
        /\ scheme \in SpecialSchemes => host >= 1

\* urlSchema.parse(req.body) does not throw
UrlSchemaOk(raw) ==
    /\ "url" \in DOMAIN raw
    /\ "string" \in DOMAIN raw.url
    /\ IsUrl(raw.url.string)

\* schema.safeParse(req.body).success
DownloadSchemaOk(raw) ==
    /\ UrlSchemaOk(raw)
    /\ "format_id" \in DOMAIN raw
    /\ "string" \in DOMAIN raw.format_id
    /\ "needs_merge" \in DOMAIN raw => "boolean" \in DOMAIN raw.needs_merge

\* parsed.data of a body the schema accepts
ParsedData(raw) ==
    [f \in DOMAIN raw \cap {"url", "format_id", "needs_merge"} |->
        IF f = "needs_merge" THEN raw[f].boolean ELSE raw[f].string]

NoRejection == [status |-> 0]

\* what spawn('yt-dlp', ...) can do: start the process, fail later with an
\* 'error' event (ENOENT, or another errno such as EACCES), or throw at once
SpawnOutcomes == {"none", "ENOENT", "EACCES", "throw"}

\* exit codes of a process that ran
ExitCodes == {0, 1}

\* the code 'close' carries after a failed spawn: the negative errno
Errno(err) == IF err = "ENOENT" THEN 0 - 2 ELSE 0 - 13

\* extensions the extractor fills into %(ext)s
Exts == {"mp4", "webm"}

\* stdout chunks of the extractor (--newline output); a chunk may carry several lines
StdoutChunks == {
    "[download] Destination: downloads/a\n",
    "[download]  50.5% of 3.00MiB at 1.00MiB/s ETA 00:01\n",
    "[download] 100% of 3.00MiB in 00:02\n",
    "[Merger] Merging formats into \"downloads/a\"\n",
    "[download]  10.0% of 3.00MiB\n[download]  20.0% of 3.00MiB\n",
    "[download] 100% of 3.00MiB\n[Merger] Merging formats into \"downloads/a\"\n" }

-----------------------------------------------------------------------------
(* Task records of activeDownloads *)

Task(p, s) == [progress |-> p, status |-> s]
ErrorTask(msg) == [progress |-> Num(0), status |-> "Error", error |-> msg]
\* a Completed task that does not name its file
CompletedTaskUnnamed(name) == [progress |-> Num(100), status |-> "Completed"]

CompletedTask(name) == [progress |-> Num(100), status |-> "Completed", filename |-> name]

\* a map write that lands on the entry of the first download
MapSetFirstKey(m, d, t) == (IdSeq[1] :> t) @@ m

\* activeDownloads.set(d, t) on the map m
MapSet(m, d, t) == (d :> t) @@ m

Terminal(t) == t.status \in {"Completed", "Error"}

downloadsDir == "downloads"
CobaltApi == "https://api.cobalt.tools/api/json"

\* dest: fs.createWriteStream was called; flushed: bytes that have reached the file
NoTransfer == [filename |-> "", ok |-> FALSE, totalSize |-> NaN, downloadedSize |-> 0,
               dest |-> FALSE, flushed |-> 0]
NoProc == [err |-> "none", errored |-> FALSE, exitCode |-> 0]

-----------------------------------------------------------------------------
(* POST /api/download, up to its first await (bypass branch) or to the end    *)
(* of the handler (extractor branch)                                          *)

\* a selector that asks for the merge whatever needs_merge says
FormatArgAlwaysMerges(body) == body.format_id \o "+bestaudio/best"

\* os.tmpdir()/youtube_cookies.txt and process.cwd()/cookies.txt
TmpCookiePath == "/tmp/youtube_cookies.txt"
LocalCookiePath == "/app/cookies.txt"

\* what the server finds when it starts: whether YOUTUBE_COOKIES is set,
\* whether a file already lies at the temporary path, whether the local
\* cookies.txt exists, and what fs.writeFileSync does: it writes the file, it
\* throws and leaves the directory as it was (EACCES), or it throws after it
\* created the file (ENOSPC)
StartupConfigs ==
    [env : {TRUE}, tmpBefore : BOOLEAN, localExists : BOOLEAN,
     write : {"ok", "throws", "throwsAfterCreate"}]
        \cup [env : {FALSE}, tmpBefore : BOOLEAN, localExists : BOOLEAN, write : {"ok"}]

NoCookiesConfig == [env |-> FALSE, tmpBefore |-> FALSE, localExists |-> FALSE, write |-> "ok"]

\* the module's startup code: COOKIE_FILE_PATH and the cookie files that
\* exist afterwards; env and writeFailed keep what happened
Startup(c) ==
    LET localFiles == IF c.localExists THEN {LocalCookiePath} ELSE {}
        tmpFiles == IF c.tmpBefore \/ (c.env /\ c.write # "throws")
                    THEN {TmpCookiePath} ELSE {}
    IN  [path |-> IF c.env THEN TmpCookiePath
                  ELSE IF c.localExists THEN LocalCookiePath
                  ELSE "",
         files |-> localFiles \cup tmpFiles,
         env |-> c.env,
         writeFailed |-> c.env /\ c.write # "ok"]

\* if (COOKIE_FILE_PATH && fs.existsSync(COOKIE_FILE_PATH)) push('--cookies', ...)
CookieArgs ==
    IF cookies.path # "" /\ cookies.path \in cookies.files
    THEN << "--cookies", cookies.path >>
    ELSE << >>

\* the format selector given to -f
FormatArg(body) ==
    IF "needs_merge" \in DOMAIN body /\ body.needs_merge
    THEN body.format_id \o "+bestaudio/best"
    ELSE body.format_id

\* the argument list of the download's extractor process
YtDlpArgs(d, body) ==
    << "-f", FormatArg(body),
       "-o", PathJoin(downloadsDir, d \o "_%(ext)s"),
       "--newline", "--no-colors", "--js-runtimes", "node",
       "--extractor-args", "youtube:player_client=ios,android,web",
       "--force-ipv4", "--geo-bypass" >> \o CookieArgs \o << body.url >>

\* the body of the bypass API request
\* a request that sends the format identifier as the quality
CobaltRequestKeepsPrefix(body) ==
    [url |-> body.url, isAudioOnly |-> body.format_id = "cobalt_audio", vQuality |-> body.format_id]

CobaltRequest(body) ==
    LET isAudio == body.format_id = "cobalt_audio"
        vQuality == IF StartsWith(body.format_id, "cobalt_video_")
                    THEN ReplaceFirst(body.format_id, "cobalt_video_", "")
                    ELSE "max"
    IN  [url |-> body.url, isAudioOnly |-> isAudio, vQuality |-> vQuality]

\* the name of the file the bypass branch writes
BypassFilename(d, body) ==
    d \o "." \o (IF body.format_id = "cobalt_audio" THEN "mp3" ELSE "mp4")

\* IsBypass with the prefix cut short by its underscore
IsBypassNoUnderscore(body) == StartsWith(body.format_id, "cobalt")

IsBypass(body) == StartsWith(body.format_id, "cobalt_")

PostDownloadBypass(d, body) ==
    /\ IsBypass(body)
    /\ httpResponse' = [httpResponse EXCEPT ![d] = Append(@, [status |-> 200, downloadId |-> d])]
    /\ activeDownloads' = MapSet(MapSet(activeDownloads, d, Task(Num(0), "Starting")),
                                 d, Task(Num(10), "Bypassing Bot Detection..."))
    /\ fetched' = [fetched EXCEPT ![d] = Append(@, [url |-> CobaltApi, body |-> CobaltRequest(body)])]
    /\ transfer' = [transfer EXCEPT ![d].filename = BypassFilename(d, body)]
    /\ pc' = [pc EXCEPT ![d] = "awaitCobalt"]
    /\ UNCHANGED <<spawned, files, proc>>

\* an extractor branch that answers without having registered the task
PostDownloadExtractorNoTask(d, body, outcome) ==
    /\ ~IsBypass(body)
    /\ UNCHANGED activeDownloads
    /\ spawned' = [spawned EXCEPT ![d] = Append(@, YtDlpArgs(d, body))]
    /\ httpResponse' = [httpResponse EXCEPT
            ![d] = Append(@, [status |-> 200, downloadId |-> d])]
    /\ pc' = [pc EXCEPT ![d] = "done"]
    /\ UNCHANGED <<proc, fetched, transfer, files>>

PostDownloadExtractor(d, body, outcome) ==
    /\ ~IsBypass(body)
    /\ activeDownloads' = MapSet(activeDownloads, d, Task(Num(0), "Starting"))
    /\ spawned' = [spawned EXCEPT ![d] = Append(@, YtDlpArgs(d, body))]
    /\ IF outcome = "throw"
       THEN /\ httpResponse' = [httpResponse EXCEPT
                   ![d] = Append(@, [status |-> 500, error |-> "Internal server error."])]
            /\ pc' = [pc EXCEPT ![d] = "done"]
            /\ UNCHANGED proc
       ELSE /\ httpResponse' = [httpResponse EXCEPT
                   ![d] = Append(@, [status |-> 200, downloadId |-> d])]
            /\ pc' = [pc EXCEPT ![d] = "spawned"]
            /\ proc' = [proc EXCEPT ![d].err = outcome]
    /\ UNCHANGED <<fetched, transfer, files>>

\* uuidv4(): the next unused identifier
NextId == IdSeq[Cardinality(DOMAIN activeDownloads) + 1]

PostDownload(d, body, outcome) ==
    /\ Cardinality(DOMAIN activeDownloads) < Len(IdSeq)
    /\ d = NextId
    /\ request' = [request EXCEPT ![d] = body]
    /\ \/ PostDownloadBypass(d, body) /\ outcome = "none"
       \/ PostDownloadExtractor(d, body, outcome)
    /\ UNCHANGED <<streams, info, rejected, client, cookies>>

\* the handler of POST /api/download for the JSON body raw
ApiDownload(raw, outcome) ==
    IF DownloadSchemaOk(raw)
    THEN \E d \in DownloadIds : PostDownload(d, ParsedData(raw), outcome)
    ELSE /\ outcome = "none"
         /\ rejected' = [status |-> 400, error |-> "Invalid input.", body |-> raw]
         /\ UNCHANGED <<dlVars, streams, info, client, cookies>>

-----------------------------------------------------------------------------
(* Events of the extractor process of a download *)

\* ytDlp.on('error')
YtDlpError(d) ==
    /\ pc[d] = "spawned"
    /\ proc[d].err # "none"
    /\ ~proc[d].errored
    /\ activeDownloads' = MapSet(activeDownloads, d,
            IF proc[d].err = "ENOENT"
            THEN ErrorTask("yt-dlp is not installed on the server.")
            ELSE ErrorTask("Failed to execute yt-dlp."))
    /\ proc' = [proc EXCEPT ![d].errored = TRUE]
    /\ UNCHANGED <<request, pc, httpResponse, spawned, fetched, transfer, files, streams, info, rejected, client, cookies>>

\* the task a stdout chunk leads to; the task is left alone when nothing matches
StdoutTask(old, output) ==
    LET progressMatch == ProgressMatch(output)
    IN  IF progressMatch # ""
        THEN Task(ParseFloat(progressMatch), "Downloading")
        ELSE IF Includes(output, "[Merger]")
             THEN Task(Num(100), "Merging")
             ELSE old

\* ytDlp.stdout.on('data')
YtDlpStdout(d, output) ==
    /\ pc[d] = "spawned"
    /\ proc[d].err = "none"
    /\ activeDownloads' = MapSet(activeDownloads, d, StdoutTask(activeDownloads[d], output))
    /\ UNCHANGED <<request, pc, httpResponse, spawned, fetched, transfer, files, proc, streams, info, rejected, client, cookies>>

\* the running extractor creates an output file named by the -o template
YtDlpWritesFile(d, ext) ==
    /\ pc[d] = "spawned"
    /\ proc[d].err = "none"
    /\ files' = files \cup {d \o "_" \o ext}
    /\ files' # files
    /\ UNCHANGED <<activeDownloads, request, pc, httpResponse, spawned, fetched, transfer, proc, streams, info, rejected, client, cookies>>

\* CloseTasks without the test of the exit code
CloseTasksIgnoresCode(d, code) ==
    LET found == {f \in files : StartsWith(f, d)}
    IN  IF found # {}
        THEN {CompletedTask(f) : f \in found}
        ELSE {ErrorTask("File not found after download.")}

\* the tasks the 'close' handler can record: files.find takes the first
\* matching name of the directory listing, whose order the platform decides
CloseTasks(d, code) ==
    IF code = 0
    THEN LET found == {f \in files : StartsWith(f, d)}
         IN  IF found # {}
             THEN {CompletedTask(f) : f \in found}
             ELSE {ErrorTask("File not found after download.")}
    ELSE {ErrorTask("Download failed.")}

\* ytDlp.on('close')
YtDlpClose(d, code) ==
    /\ pc[d] = "spawned"
    /\ IF proc[d].err = "none"
       THEN code \in ExitCodes
       ELSE proc[d].errored /\ code = Errno(proc[d].err)
    /\ \E t \in CloseTasks(d, code) : activeDownloads' = MapSet(activeDownloads, d, t)
    /\ pc' = [pc EXCEPT ![d] = "closed"]
    /\ proc' = [proc EXCEPT ![d].exitCode = code]
    /\ UNCHANGED <<request, httpResponse, spawned, fetched, transfer, files, streams, info, rejected, client, cookies>>

-----------------------------------------------------------------------------
(* The bypass branch after its first await.  Each action is the code that     *)
(* runs when one await settles, up to the next await.                        *)

\* a catch that records err.message as it is
BypassErrorNoFallback(d, message) ==
    /\ activeDownloads' = MapSet(activeDownloads, d, ErrorTask(message))
    /\ pc' = [pc EXCEPT ![d] = "done"]

\* the catch of the bypass branch
BypassError(d, message) ==
    /\ activeDownloads' = MapSet(activeDownloads, d,
            ErrorTask(IF message # "" THEN message
                      ELSE "Bypass server failed to process this video."))
    /\ pc' = [pc EXCEPT ![d] = "done"]

\* messages of errors thrown by fetch, json() and read() themselves; an error
\* may carry no message
NetworkErrors == {"fetch failed", ""}
JsonErrors == {"Unexpected token < in JSON at position 0"}

\* status codes of bypass API answers that are not ok
BadStatusTexts == {"429"}

\* await fetch(CobaltApi) settles: rejected, or resolved with ok or not ok
CobaltFetchSettles(d, result) ==
    /\ pc[d] = "awaitCobalt"
    /\ IF result = "rejected"
       THEN /\ \E m \in NetworkErrors : BypassError(d, m)
            /\ UNCHANGED transfer
       ELSE /\ pc' = [pc EXCEPT ![d] = "awaitCobaltJson"]
            /\ transfer' = [transfer EXCEPT ![d].ok = (result = "ok")]
            /\ UNCHANGED activeDownloads
    /\ UNCHANGED <<request, httpResponse, spawned, fetched, files, proc, streams, info, rejected, client, cookies>>

\* documents the bypass API answers with; json() may also reject ("invalid")
CobaltDocs == {
    [status |-> "error", text |-> "rate limited"],
    [status |-> "error"],
    [status |-> "stream", url |-> "https://cdn.example/v"],
    [status |-> "picker", picker |-> << [url |-> "https://cdn.example/p"] >>],
    [status |-> "picker", picker |-> << >>],
    [status |-> "redirect"],
    [status |-> "invalid"] }

\* the download URL picked from the API's document, "" when it has none
DownloadUrl(cobaltData) ==
    IF /\ cobaltData.status = "picker"
       /\ "picker" \in DOMAIN cobaltData
       /\ Len(cobaltData.picker) > 0
    THEN cobaltData.picker[1].url
    ELSE IF "url" \in DOMAIN cobaltData THEN cobaltData.url ELSE ""

\* await cobaltRes.json() settles, of a response that was not ok:
\* the error text is the document's text, or names the status
CobaltErrorJsonSettles(d, doc) ==
    /\ pc[d] = "awaitCobaltJson"
    /\ ~transfer[d].ok
    /\ \E st \in BadStatusTexts :
         BypassError(d, IF doc.status # "invalid" /\ Truthy(doc, "text")
                        THEN doc.text
                        ELSE "Bypass API failed with status " \o st)
    /\ UNCHANGED <<request, httpResponse, spawned, fetched, transfer, files, proc, streams, info, rejected, client, cookies>>

\* await cobaltRes.json() settles, of a response that was ok
CobaltJsonSettles(d, doc) ==
    /\ pc[d] = "awaitCobaltJson"
    /\ transfer[d].ok
    /\ IF doc.status = "invalid"
       THEN (\E m \in JsonErrors : BypassError(d, m)) /\ UNCHANGED fetched
       ELSE IF doc.status = "error"
       THEN BypassError(d, IF Truthy(doc, "text") THEN doc.text ELSE "Unknown bypass error")
            /\ UNCHANGED fetched
       ELSE IF DownloadUrl(doc) = ""
       THEN BypassError(d, "No download URL returned from bypass server")
            /\ UNCHANGED fetched
       ELSE /\ activeDownloads' = MapSet(activeDownloads, d,
                    Task(Num(30), "Downloading from Bypass Server..."))
            /\ fetched' = [fetched EXCEPT ![d] = Append(@, [url |-> DownloadUrl(doc)])]
            /\ pc' = [pc EXCEPT ![d] = "awaitFile"]
    /\ UNCHANGED <<request, httpResponse, spawned, transfer, files, proc, streams, info, rejected, client, cookies>>

\* content-length header values of the media response; "" is a missing header
ContentLengths == {"", "2", "abc"}

\* await fetch(downloadUrl) settles.  result: "rejected", "notok", "nobody"
\* (ok, without a body) or "ok"
FileFetchSettles(d, result, header) ==
    /\ pc[d] = "awaitFile"
    /\ IF result = "rejected"
       THEN (\E m \in NetworkErrors : BypassError(d, m)) /\ UNCHANGED <<transfer, files>>
       ELSE IF result = "notok"
       THEN BypassError(d, "Failed to fetch media from bypass server")
            /\ UNCHANGED <<transfer, files>>
       ELSE /\ transfer' = [transfer EXCEPT
                   ![d].totalSize = ParseInt(IF header # "" THEN header ELSE "0"),
                   ![d].downloadedSize = 0,
                   ![d].dest = TRUE]
            /\ UNCHANGED files
            /\ IF result = "nobody"
               THEN BypassError(d, "No response body from bypass server")
               ELSE pc' = [pc EXCEPT ![d] = "reading"] /\ UNCHANGED activeDownloads
    /\ UNCHANGED <<request, httpResponse, spawned, fetched, proc, streams, info, rejected, client, cookies>>

\* the write stream works in the background: it opens (creates) the file and
\* writes the chunks handed to dest.write. Nothing reads the file while the
\* read loop runs and the stream's steps commute with the loop's, so they are
\* taken once the loop has ended.
WriteStreamFlushes(d) ==
    /\ transfer[d].dest
    /\ pc[d] # "reading"
    /\ transfer[d].filename \notin files \/ transfer[d].flushed < transfer[d].downloadedSize
    /\ files' = files \cup {transfer[d].filename}
    /\ transfer' = [transfer EXCEPT ![d].flushed = transfer[d].downloadedSize]
    /\ UNCHANGED <<activeDownloads, request, pc, httpResponse, spawned, fetched, proc, streams,
                   info, rejected, client, cookies>>

\* a percentage that counts the bytes still missing
TransferPercentRemaining(downloadedSize, totalSize) ==
    [num |-> 30 * totalSize.num + (totalSize.num - downloadedSize) * 69, den |-> totalSize.num]

\* the progress recorded after downloadedSize of totalSize bytes: 30 + (d / t) * 69
TransferPercent(downloadedSize, totalSize) ==
    [num |-> 30 * totalSize.num + downloadedSize * 69, den |-> totalSize.num]

\* await reader.read() resolves with a chunk of len bytes
ReadChunk(d, len) ==
    /\ pc[d] = "reading"
    /\ transfer[d].downloadedSize + len <= MaxBytes
    /\ transfer' = [transfer EXCEPT ![d].downloadedSize = @ + len]
    /\ IF Positive(transfer[d].totalSize)
       THEN activeDownloads' = MapSet(activeDownloads, d,
                Task(TransferPercent(transfer[d].downloadedSize + len, transfer[d].totalSize),
                     "Downloading"))
       ELSE UNCHANGED activeDownloads
    /\ UNCHANGED <<request, pc, httpResponse, spawned, fetched, files, proc, streams, info, rejected, client, cookies>>

\* await reader.read() resolves with done
ReadDone(d) ==
    /\ pc[d] = "reading"
    /\ activeDownloads' = MapSet(activeDownloads, d, CompletedTask(transfer[d].filename))
    /\ pc' = [pc EXCEPT ![d] = "done"]
    /\ UNCHANGED <<request, httpResponse, spawned, fetched, transfer, files, proc, streams, info, rejected, client, cookies>>

\* await reader.read() rejects
ReadFails(d) ==
    /\ pc[d] = "reading"
    /\ \E m \in NetworkErrors : BypassError(d, m)
    /\ UNCHANGED <<request, httpResponse, spawned, fetched, transfer, files, proc, streams, info, rejected, client, cookies>>

-----------------------------------------------------------------------------
(* GET /api/progress/:downloadId *)

\* an identifier of no download
UnknownId == "d0"

\* an identifier is a random uuid: a client asks for one that a 200 response
\* of POST /api/download gave it, or for one that names no download
Requestable(downloadId) ==
    \/ downloadId = UnknownId
    \/ /\ downloadId \in DownloadIds
       /\ \E i \in 1..Len(httpResponse[downloadId]) : httpResponse[downloadId][i].status = 200

\* the handler: headers are set and the interval timer started
GetProgress(sid, downloadId) ==
    /\ sid \notin DOMAIN streams
    /\ Requestable(downloadId)
    /\ streams' = (sid :> [downloadId |-> downloadId, timer |-> TRUE, ended |-> FALSE,
                           closed |-> FALSE, frames |-> << >>]) @@ streams
    /\ UNCHANGED <<dlVars, info, rejected, client, cookies>>

\* sendProgress that neither clears the timer nor ends the response
SendProgressKeepsTimer(st) ==
    IF st.downloadId \in DOMAIN activeDownloads
    THEN [st EXCEPT !.frames = Append(@, activeDownloads[st.downloadId])]
    ELSE st

\* sendProgress that ends the response when the map has no task
SendProgressEndsUnknown(st) ==
    IF st.downloadId \in DOMAIN activeDownloads
    THEN LET data == activeDownloads[st.downloadId]
         IN  [st EXCEPT !.frames = Append(@, data),
                        !.timer = IF Terminal(data) THEN FALSE ELSE @,
                        !.ended = IF Terminal(data) THEN TRUE ELSE @]
    ELSE [st EXCEPT !.timer = FALSE, !.ended = TRUE]

\* sendProgress applied to the stream record st
SendProgress(st) ==
    IF st.downloadId \in DOMAIN activeDownloads
    THEN LET data == activeDownloads[st.downloadId]
         IN  [st EXCEPT !.frames = Append(@, data),
                        !.timer = IF Terminal(data) THEN FALSE ELSE @,
                        !.ended = IF Terminal(data) THEN TRUE ELSE @]
    ELSE st

\* a timer that forgets the task once its terminal frame has been written
TickForgetsTask(sid) ==
    /\ sid \in DOMAIN streams
    /\ streams[sid].timer
    /\ streams[sid].downloadId \in DOMAIN activeDownloads =>
            \/ Terminal(activeDownloads[streams[sid].downloadId])
            \/ Len(streams[sid].frames) < MaxFrames
    /\ streams' = [streams EXCEPT ![sid] = SendProgress(@)]
    /\ activeDownloads' =
            IF streams'[sid].ended
            THEN [d \in DOMAIN activeDownloads \ {streams[sid].downloadId} |-> activeDownloads[d]]
            ELSE activeDownloads
    /\ UNCHANGED <<request, pc, httpResponse, spawned, fetched, transfer, files, proc, info,
                   rejected, client, cookies>>

\* one firing of the interval timer; frames before the terminal one are bounded
Tick(sid) ==
    /\ sid \in DOMAIN streams
    /\ streams[sid].timer
    /\ streams[sid].downloadId \in DOMAIN activeDownloads =>
            \/ Terminal(activeDownloads[streams[sid].downloadId])
            \/ Len(streams[sid].frames) < MaxFrames
    /\ streams' = [streams EXCEPT ![sid] = SendProgress(@)]
    /\ UNCHANGED <<dlVars, info, rejected, client, cookies>>

\* a close handler that leaves the interval timer set
RequestCloseKeepsTimer(sid) ==
    /\ sid \in DOMAIN streams
    /\ ~streams[sid].closed
    /\ streams' = [streams EXCEPT ![sid].closed = TRUE]
    /\ UNCHANGED <<dlVars, info, rejected, client, cookies>>

\* a close handler that also abandons the download being watched
RequestCloseStopsDownload(sid) ==
    /\ sid \in DOMAIN streams
    /\ ~streams[sid].closed
    /\ streams' = [streams EXCEPT ![sid].timer = FALSE, ![sid].closed = TRUE]
    /\ pc' = [d \in DownloadIds |-> IF d = streams[sid].downloadId THEN "done" ELSE pc[d]]
    /\ UNCHANGED <<activeDownloads, request, httpResponse, spawned, fetched, transfer, files,
                   proc, info, rejected, client, cookies>>

\* req.on('close'): the client went away, or the ended response's connection closed
RequestClose(sid) ==
    /\ sid \in DOMAIN streams
    /\ ~streams[sid].closed
    /\ streams' = [streams EXCEPT ![sid].timer = FALSE, ![sid].closed = TRUE]
    /\ UNCHANGED <<dlVars, info, rejected, client, cookies>>

-----------------------------------------------------------------------------
(* POST /api/info *)

InfoIds == {"r1"}

\* URLs that pass urlSchema; netflix.com contains "x.com"
InfoUrls == {"https://youtu.be/a", "https://vimeo.com/1", "https://netflix.com/t",
             "https://www.tiktok.com/@u/video/1"}

\* the JSON bodies of POST /api/info with those URLs
InfoBodies == {[url |-> JString(u)] : u \in InfoUrls}

\* bodies urlSchema refuses: a url without a scheme, one without a host, no url
InvalidInfoBodies == {
    [url |-> JString("youtu.be/a")],
    [url |-> JString("https://")],
    [link |-> JString("https://youtu.be/a")] }

Filler == "0123456789012345678901234567890123456789"

\* chunks the extractor writes to stderr
StderrChunks == {
    "ERROR: Unsupported URL: https://vimeo.com/1\n",
    "ERROR: [vimeo] 1: Video unavailable\n",
    "ERROR: [vimeo] 1: Private video. Sign in if you've been granted access\n",
    "ERROR: unable to download video data: HTTP Error 403: Forbidden\n",
    "ERROR: [vimeo] Redirecting to Login page\n",
    "ERROR: [generic] Unable to download webpage\n",
    "WARNING: " \o Filler \o Filler \o Filler \o Filler \o Filler \o "\n" }

\* what the extractor's stdout holds when it closes: nothing, text that is no
\* JSON document, or the metadata document
RawFormats == {
    [format_id |-> "18", ext |-> "mp4", vcodec |-> "avc1", acodec |-> "mp4a"],
    [format_id |-> "140", ext |-> "m4a", vcodec |-> "none", acodec |-> "mp4a"],
    [format_id |-> "137", ext |-> "mp4", vcodec |-> "avc1", acodec |-> "none"],
    [format_id |-> "sb0", ext |-> "mhtml", vcodec |-> "none", acodec |-> "none"],
    [format_id |-> "hls", ext |-> "mp4"] }

StdoutDocs ==
    {[kind |-> "empty"], [kind |-> "garbage"]}
        \cup {[kind |-> "json", title |-> "A", formats |-> <<f>>] : f \in RawFormats}

\* the value of a property that is absent
Undefined == "undefined"

Prop(f, field) == IF field \in DOMAIN f THEN f[field] ELSE Undefined

\* a mapping that calls every format with a video codec combined
StructuredFormatVideoIsCombined(f) ==
    LET vcodec == IF Prop(f, "vcodec") # "none" THEN Prop(f, "vcodec") ELSE "none"
        acodec == IF Prop(f, "acodec") # "none" THEN Prop(f, "acodec") ELSE "none"
    IN  [format_id |-> f.format_id,
         ext |-> f.ext,
         vcodec |-> vcodec,
         acodec |-> acodec,
         video_only |-> (vcodec # "none" /\ acodec = "none"),
         audio_only |-> (vcodec = "none" /\ acodec # "none"),
         combined |-> (vcodec # "none")]

\* one entry of structuredFormats
StructuredFormat(f) ==
    LET vcodec == IF Prop(f, "vcodec") # "none" THEN Prop(f, "vcodec") ELSE "none"
        acodec == IF Prop(f, "acodec") # "none" THEN Prop(f, "acodec") ELSE "none"
    IN  [format_id |-> f.format_id,
         ext |-> f.ext,
         vcodec |-> vcodec,
         acodec |-> acodec,
         video_only |-> (vcodec # "none" /\ acodec = "none"),
         audio_only |-> (vcodec = "none" /\ acodec # "none"),
         combined |-> (vcodec # "none" /\ acodec # "none")]

BypassFormat(id, ext, resolution, vcodec, acodec, audio) ==
    [format_id |-> id, ext |-> ext, resolution |-> resolution, filesize |-> 0,
     vcodec |-> vcodec, acodec |-> acodec, video_only |-> FALSE, audio_only |-> audio,
     combined |-> ~audio, format_note |-> "Bypassed via external API"]

\* the six formats of the fallback response
FallbackFormats == <<
    BypassFormat("cobalt_video_max", "mp4", "Best Quality (Auto)", "h264", "aac", FALSE),
    BypassFormat("cobalt_video_1080", "mp4", "1080p", "h264", "aac", FALSE),
    BypassFormat("cobalt_video_720", "mp4", "720p", "h264", "aac", FALSE),
    BypassFormat("cobalt_video_480", "mp4", "480p", "h264", "aac", FALSE),
    BypassFormat("cobalt_video_360", "mp4", "360p", "h264", "aac", FALSE),
    BypassFormat("cobalt_audio", "mp3", "Audio Only", "none", "mp3", TRUE) >>

IsKnownPlatform(url) ==
    \/ Includes(url, "youtube.com")
    \/ Includes(url, "youtu.be")
    \/ Includes(url, "instagram.com")
    \/ Includes(url, "tiktok.com")
    \/ Includes(url, "twitter.com")
    \/ Includes(url, "x.com")

\* IsBotError with every signature matched case-sensitively
IsBotErrorCaseSensitive(stderr) ==
    \/ Includes(stderr, "Sign in to confirm")
    \/ Includes(stderr, "HTTP Error 403")
    \/ Includes(stderr, "bot")
    \/ Includes(stderr, "Login required")
    \/ Includes(stderr, "redirecting to login")
    \/ Includes(stderr, "HTTP Error 401")

IsBotError(stderr) ==
    \/ Includes(stderr, "Sign in to confirm")
    \/ Includes(stderr, "HTTP Error 403")
    \/ Includes(stderr, "bot")
    \/ Includes(stderr, "Login required")
    \/ Includes(ToLowerCase(stderr), "redirecting to login")
    \/ Includes(stderr, "HTTP Error 401")

\* the number of characters of stderr echoed in details
DetailsLength == 200

\* ErrorMessage with the rules for Private video and Video unavailable swapped
ErrorMessagePrivateFirst(stderr) ==
    IF Includes(stderr, "Unsupported URL")
    THEN "The provided URL is not supported by the extractor."
    ELSE IF Includes(stderr, "Private video")
    THEN "This video is private and requires authentication."
    ELSE IF Includes(stderr, "Video unavailable")
    THEN "The video is unavailable, private, or deleted."
    ELSE "Failed to extract media info. Ensure the URL is valid and supported."

\* the error message chosen for stderr
ErrorMessage(stderr) ==
    IF Includes(stderr, "Unsupported URL")
    THEN "The provided URL is not supported by the extractor."
    ELSE IF Includes(stderr, "Video unavailable")
    THEN "The video is unavailable, private, or deleted."
    ELSE IF Includes(stderr, "Private video")
    THEN "This video is private and requires authentication."
    ELSE "Failed to extract media info. Ensure the URL is valid and supported."

\* the title of the fallback response of a URL that is not YouTube's
FallbackTitle(url) ==
    IF Includes(url, "instagram.com") THEN "Instagram Media"
    ELSE IF Includes(url, "tiktok.com") THEN "TikTok Video"
    ELSE IF Includes(url, "x.com") \/ Includes(url, "twitter.com") THEN "X (Twitter) Video"
    ELSE "Media"

IsYoutube(url) == Includes(url, "youtube.com") \/ Includes(url, "youtu.be")

FallbackResponse(title) ==
    [status |-> 200, by |-> "close", title |-> title, duration |-> 0,
     formats |-> FallbackFormats]

\* the argument list of the extractor process of /api/info
InfoArgs(url) ==
    << "-J", "--no-colors", "--js-runtimes", "node",
       "--extractor-args", "youtube:player_client=ios,android,web",
       "--force-ipv4", "--geo-bypass", "--no-warnings" >> \o CookieArgs \o << url >>

NoInfo == [pc |-> "idle", body |-> [url |-> JString("")], spawns |-> 0, args |-> << >>, url |-> "", err |-> "none", exitCode |-> 0,
           stdout |-> [kind |-> "empty"],
           stderr |-> "", nerr |-> 0, hasResponded |-> FALSE, fired |-> << >>,
           responses |-> << >>]

Respond(r, response) == [r EXCEPT !.responses = Append(@, response)]

\* the handler up to the registration of the callbacks; spawn may throw
PostInfo(rid, raw, outcome) ==
    /\ info[rid].pc = "idle"
    /\ info' = [info EXCEPT ![rid] =
            LET r == [@ EXCEPT !.body = raw, !.url = raw.url.string, !.spawns = @ + 1,
                               !.args = InfoArgs(raw.url.string)]
            IN  IF outcome = "throw"
                THEN Respond([r EXCEPT !.pc = "closed"],
                             [status |-> 500, by |-> "catch", error |-> "Internal server error."])
                ELSE [r EXCEPT !.pc = "spawned", !.err = outcome]]
    /\ UNCHANGED <<dlVars, streams, rejected, client, cookies>>

\* the handler of POST /api/info for the JSON body raw: a ZodError thrown by
\* urlSchema.parse is answered by the catch
ApiInfo(rid, raw, outcome) ==
    /\ info[rid].pc = "idle"
    /\ IF UrlSchemaOk(raw)
       THEN PostInfo(rid, raw, outcome)
       ELSE /\ outcome = "none"
            /\ info' = [info EXCEPT ![rid] =
                    Respond([@ EXCEPT !.pc = "closed", !.body = raw],
                            [status |-> 400, by |-> "catch", error |-> "Invalid URL provided."])]
            /\ UNCHANGED <<dlVars, streams, rejected, client, cookies>>

\* ytDlp.on('error')
InfoErrorHandler(r) ==
    IF r.hasResponded THEN r
    ELSE Respond([r EXCEPT !.hasResponded = TRUE],
                 IF r.err = "ENOENT"
                 THEN [status |-> 500, by |-> "error",
                       error |-> "yt-dlp is not installed on the server."]
                 ELSE [status |-> 500, by |-> "error", error |-> "Failed to execute yt-dlp."])

InfoError(rid) ==
    /\ info[rid].pc = "spawned"
    /\ info[rid].err # "none"
    /\ "error" \notin {info[rid].fired[i] : i \in 1..Len(info[rid].fired)}
    /\ info' = [info EXCEPT ![rid] = [InfoErrorHandler(@) EXCEPT !.fired = Append(@, "error")]]
    /\ UNCHANGED <<dlVars, streams, rejected, client, cookies>>

\* ytDlp.stdout.on('data'): the text stdout has gathered
InfoStdout(rid, doc) ==
    /\ info[rid].pc = "spawned"
    /\ info[rid].err = "none"
    /\ info[rid].stdout.kind = "empty"
    /\ doc.kind # "empty"
    /\ info' = [info EXCEPT ![rid].stdout = doc]
    /\ UNCHANGED <<dlVars, streams, rejected, client, cookies>>

\* ytDlp.stderr.on('data')
InfoStderr(rid, data) ==
    /\ info[rid].pc = "spawned"
    /\ info[rid].err = "none"
    /\ info[rid].nerr < MaxStderrChunks
    /\ info' = [info EXCEPT ![rid].stderr = @ \o data, ![rid].nerr = @ + 1]
    /\ UNCHANGED <<dlVars, streams, rejected, client, cookies>>

\* the 'close' handler for a non-zero code, up to the response or the await
InfoCloseFailed(r) ==
    IF IsKnownPlatform(r.url) \/ IsBotError(r.stderr)
    THEN IF IsYoutube(r.url)
         THEN [r EXCEPT !.pc = "awaitOembed"]
         ELSE Respond(r, FallbackResponse(FallbackTitle(r.url)))
    ELSE Respond(r, [status |-> 400, by |-> "close", error |-> ErrorMessage(r.stderr),
                     details |-> Substring0(r.stderr, DetailsLength)])

\* the 'close' handler for code 0
InfoCloseOk(r) ==
    IF r.stdout.kind = "json"
    THEN Respond(r, [status |-> 200, by |-> "close", title |-> r.stdout.title,
                     formats |-> [i \in 1..Len(r.stdout.formats) |->
                                     StructuredFormat(r.stdout.formats[i])]])
    ELSE Respond(r, [status |-> 500, by |-> "close", error |-> "Failed to parse media info."])

\* the 'close' handler without the test of hasResponded
InfoCloseHandlerUnguarded(r, code) ==
    IF code # 0
    THEN InfoCloseFailed([r EXCEPT !.hasResponded = TRUE])
    ELSE InfoCloseOk([r EXCEPT !.hasResponded = TRUE])

\* ytDlp.on('close')
InfoCloseHandler(r, code) ==
    IF r.hasResponded THEN r
    ELSE IF code # 0
         THEN InfoCloseFailed([r EXCEPT !.hasResponded = TRUE])
         ELSE InfoCloseOk([r EXCEPT !.hasResponded = TRUE])

InfoClose(rid, code) ==
    /\ info[rid].pc = "spawned"
    /\ IF info[rid].err = "none"
       THEN code \in ExitCodes
       ELSE Len(info[rid].fired) > 0 /\ code = Errno(info[rid].err)
    /\ info' = [info EXCEPT ![rid] =
            LET r == InfoCloseHandler([@ EXCEPT !.pc = "closed", !.exitCode = code], code)
            IN  [r EXCEPT !.fired = Append(@, "close")]]
    /\ UNCHANGED <<dlVars, streams, rejected, client, cookies>>

\* answers of the oEmbed lookup: it fails, or gives a document with or without a title
OembedResults == {"rejected", "titled", "untitled"}

\* the awaits of the oEmbed lookup settle; its failure is ignored
OembedSettles(rid, result) ==
    /\ info[rid].pc = "awaitOembed"
    /\ info' = [info EXCEPT ![rid] =
            Respond([@ EXCEPT !.pc = "closed"],
                    FallbackResponse(IF result = "titled" THEN "oEmbed title" ELSE "Media"))]
    /\ UNCHANGED <<dlVars, streams, rejected, client, cookies>>

\* the steps of the /api/info requests with the JSON bodies of bodies, whose
\* extractor writes the chunks of chunks to stderr
InfoNext(bodies, chunks) ==
    \/ \E rid \in InfoIds, raw \in bodies, o \in SpawnOutcomes : ApiInfo(rid, raw, o)
    \/ \E rid \in InfoIds : InfoError(rid)
    \/ \E rid \in InfoIds, doc \in StdoutDocs : InfoStdout(rid, doc)
    \/ \E rid \in InfoIds, data \in chunks : InfoStderr(rid, data)
    \/ \E rid \in InfoIds, code \in ExitCodes \cup {0 - 2, 0 - 13} : InfoClose(rid, code)
    \/ \E rid \in InfoIds, result \in OembedResults : OembedSettles(rid, result)

-----------------------------------------------------------------------------
(* The browser client: handleDownload and the effect that holds the         *)
(* EventSource of the progress stream                                        *)

\* the value null of the state hook progress, and of the state hook downloadId
Null == [null |-> TRUE]
NullId == "null"

NoEventSource == [id |-> NullId, state |-> "none"]

\* state after the first render: clicks counts the downloads triggered,
\* pending holds the numbers of the POST /api/download fetches in flight, es
\* is the EventSource of the last run of the effect and esFor the value of
\* downloadId that run was for
NoClient == [error |-> "", downloadId |-> NullId, progress |-> Null, clicks |-> 0,
             pending |-> {}, es |-> NoEventSource, esFor |-> NullId]

\* progress events the server may write to the stream
ClientFrames == {
    Task(Num(0), "Starting"),
    Task(Num(50), "Downloading"),
    CompletedTask("d1_mp4"),
    ErrorTask("Download failed.") }

\* messages of a POST /api/download that did not start a download
StartErrors == {"Invalid input.", "Failed to fetch"}

\* handleDownload up to its await of fetch
HandleDownload ==
    /\ client.clicks < Len(IdSeq)
    /\ client' = [client EXCEPT !.error = "", !.downloadId = NullId, !.progress = Null,
                                !.clicks = @ + 1, !.pending = @ \cup {client.clicks + 1}]
    /\ UNCHANGED <<dlVars, streams, info, rejected, cookies>>

\* the fetch of the k-th download settles and handleDownload runs on: the
\* answer carries the identifier of that download, or the start failed
DownloadSettles(k, ok) ==
    /\ k \in client.pending
    /\ \/ /\ ok
          /\ client' = [client EXCEPT !.pending = @ \ {k}, !.downloadId = IdSeq[k]]
       \/ /\ ~ok
          /\ \E m \in StartErrors :
                client' = [client EXCEPT !.pending = @ \ {k}, !.error = m]
    /\ UNCHANGED <<dlVars, streams, info, rejected, cookies>>

\* the effect runs after downloadId changed: the cleanup of the previous run
\* closes its EventSource, then an EventSource is opened unless downloadId is null
RunEffect ==
    /\ client.esFor # client.downloadId
    /\ client' = [client EXCEPT
            !.esFor = client.downloadId,
            !.es = IF client.downloadId = NullId
                   THEN (IF client.es.state = "none" THEN client.es
                         ELSE [client.es EXCEPT !.state = "closed"])
                   ELSE [id |-> client.downloadId, state |-> "open"]]
    /\ UNCHANGED <<dlVars, streams, info, rejected, cookies>>

\* eventSource.onmessage
OnMessage(data) ==
    /\ client.es.state = "open"
    /\ client' = [client EXCEPT
            !.progress = data,
            !.es.state = IF data.status \in {"Completed", "Error"} THEN "closed" ELSE @]
    /\ UNCHANGED <<dlVars, streams, info, rejected, cookies>>

\* the updater of eventSource.onerror
LostConnection(prev) ==
    IF prev # Null
    THEN [f \in DOMAIN prev \cup {"error"} |->
            IF f = "status" THEN "Error"
            ELSE IF f = "error" THEN "Lost connection to server"
            ELSE prev[f]]
    ELSE Null

\* eventSource.onerror: the EventSource is closed by the handler ("failed")
OnError ==
    /\ client.es.state = "open"
    /\ client' = [client EXCEPT !.progress = LostConnection(@), !.es.state = "failed"]
    /\ UNCHANGED <<dlVars, streams, info, rejected, cookies>>

ClientNext ==
    \/ HandleDownload
    \/ \E k \in 1..Len(IdSeq), ok \in BOOLEAN : DownloadSettles(k, ok)
    \/ RunEffect
    \/ \E data \in ClientFrames : OnMessage(data)
    \/ OnError

-----------------------------------------------------------------------------

\* the state after the module was loaded with one of the startup configurations
InitAfter(configs) ==
    /\ activeDownloads = << >>
    /\ request = [d \in DownloadIds |-> [url |-> "", format_id |-> ""]]
    /\ pc = [d \in DownloadIds |-> "idle"]
    /\ httpResponse = [d \in DownloadIds |-> << >>]
    /\ spawned = [d \in DownloadIds |-> << >>]
    /\ fetched = [d \in DownloadIds |-> << >>]
    /\ transfer = [d \in DownloadIds |-> NoTransfer]
    /\ files = {}
    /\ proc = [d \in DownloadIds |-> NoProc]
    /\ streams = << >>
    /\ info = [rid \in InfoIds |-> NoInfo]
    /\ rejected = NoRejection
    /\ client = NoClient
    /\ cookies \in {Startup(c) : c \in configs}

\* a server started without cookies
Init == InitAfter({NoCookiesConfig})

\* the steps of the downloads, with at most maxDownloads of them, for
\* requests with the JSON bodies of bodies
DownloadNext(maxDownloads, bodies) ==
    \/ \E raw \in bodies, o \in SpawnOutcomes :
            /\ Cardinality(DOMAIN activeDownloads) < maxDownloads
            /\ ApiDownload(raw, o)
    \/ \E d \in DownloadIds : YtDlpError(d)
    \/ \E d \in DownloadIds, output \in StdoutChunks : YtDlpStdout(d, output)
    \/ \E d \in DownloadIds, ext \in Exts : YtDlpWritesFile(d, ext)
    \/ \E d \in DownloadIds, code \in ExitCodes \cup {0 - 2, 0 - 13} : YtDlpClose(d, code)
    \/ \E d \in DownloadIds, r \in {"rejected", "ok", "notok"} : CobaltFetchSettles(d, r)
    \/ \E d \in DownloadIds, doc \in CobaltDocs : CobaltErrorJsonSettles(d, doc)
    \/ \E d \in DownloadIds, doc \in CobaltDocs : CobaltJsonSettles(d, doc)
    \/ \E d \in DownloadIds, r \in {"rejected", "notok", "nobody", "ok"}, h \in ContentLengths :
            FileFetchSettles(d, r, h)
    \/ \E d \in DownloadIds, len \in 1..MaxChunkLen : ReadChunk(d, len)
    \/ \E d \in DownloadIds : ReadDone(d)
    \/ \E d \in DownloadIds : ReadFails(d)
    \/ \E d \in DownloadIds : WriteStreamFlushes(d)

\* the steps of the progress streams sids, opened for identifiers of ids
StreamNext(sids, ids) ==
    \/ \E sid \in sids, id \in ids : GetProgress(sid, id)
    \/ \E sid \in sids : Tick(sid)
    \/ \E sid \in sids : RequestClose(sid)

\* concurrent downloads
Next == DownloadNext(Len(IdSeq), {JsonBody(body) : body \in ValidBodies})

\* one download and the progress streams that watch the task map
ProgressNext ==
    \/ DownloadNext(1, {JsonBody(body) : body \in ValidBodies})
    \/ StreamNext({"s1"}, {IdSeq[1], UnknownId})

\* one body for each branch of the download handler
ReconnectBodies == {body \in ValidBodies : body.format_id \in {"22", "cobalt_audio"}
                                           /\ "needs_merge" \notin DOMAIN body}

\* one download, a progress stream, and a second stream that the client opens
\* after the first one was closed and the task has become Completed or Error
ReconnectNext ==
    \/ DownloadNext(1, {JsonBody(body) : body \in ReconnectBodies})
    \/ StreamNext({"s1"}, {IdSeq[1]})
    \/ /\ "s1" \in DOMAIN streams
       /\ streams["s1"].closed
       /\ Terminal(activeDownloads[IdSeq[1]])
       /\ StreamNext({"s2"}, {IdSeq[1]})

Spec == Init /\ [][Next]_vars

SpecProgress == Init /\ [][ProgressNext]_vars

SpecInfo == Init /\ [][InfoNext(InfoBodies \cup InvalidInfoBodies, StderrChunks)]_vars

\* one download and one /api/info request, with bodies the schemas accept and
\* bodies they refuse
ValidationNext ==
    \/ DownloadNext(1, {JsonBody(body) : body \in ReconnectBodies} \cup InvalidBodies)
    \/ InfoNext({[url |-> JString("https://youtu.be/a")]} \cup InvalidInfoBodies,
                {"ERROR: [generic] Unable to download webpage\n"})

SpecValidation == Init /\ [][ValidationNext]_vars

SpecClient == Init /\ [][ClientNext]_vars

\* one download and one /api/info request on a server started in any way
CookiesNext ==
    \/ DownloadNext(1, {JsonBody(body) : body \in ReconnectBodies})
    \/ InfoNext({[url |-> JString("https://youtu.be/a")]},
                {"ERROR: [generic] Unable to download webpage\n"})

SpecCookies == InitAfter(StartupConfigs) /\ [][CookiesNext]_vars

\* the download requests the client sends for the formats of the fallback
\* response, with or without the merge option
FallbackBodies ==
    [url : DownloadUrls,
     format_id : {FallbackFormats[i].format_id : i \in DOMAIN FallbackFormats},
     needs_merge : BOOLEAN]

\* one download, requested for a format of the fallback response or for a
\* format of the extractor
FallbackNext ==
    DownloadNext(1, {JsonBody(body) : body \in FallbackBodies \cup ReconnectBodies})

SpecFallback == Init /\ [][FallbackNext]_vars

\* Scheduling: an extractor process that was spawned delivers its 'error' or
\* 'close' event, every await of the bypass branch settles, and the interval
\* timer of a progress stream keeps firing while it is set.
DownloadFairness(d) ==
    /\ WF_vars(YtDlpError(d))
    /\ WF_vars(\E code \in ExitCodes \cup {0 - 2, 0 - 13} : YtDlpClose(d, code))
    /\ WF_vars(\E r \in {"rejected", "ok", "notok"} : CobaltFetchSettles(d, r))
    /\ WF_vars(\E doc \in CobaltDocs : CobaltErrorJsonSettles(d, doc))
    /\ WF_vars(\E doc \in CobaltDocs : CobaltJsonSettles(d, doc))
    /\ WF_vars(\E r \in {"rejected", "notok", "nobody", "ok"}, h \in ContentLengths :
                    FileFetchSettles(d, r, h))
    /\ WF_vars(ReadDone(d) \/ ReadFails(d) \/ \E len \in 1..MaxChunkLen : ReadChunk(d, len))

FairSpec ==
    /\ Init
    /\ [][ProgressNext]_vars
    /\ \A d \in DownloadIds : DownloadFairness(d)
    /\ WF_vars(Tick("s1"))

FairSpecReconnect ==
    /\ Init
    /\ [][ReconnectNext]_vars
    /\ \A d \in DownloadIds : DownloadFairness(d)
    /\ WF_vars(Tick("s1"))
    /\ WF_vars(Tick("s2"))

-----------------------------------------------------------------------------
(* Claims *)

\* C1: once a task's status is Completed or Error, no later step of its
\* download changes its map entry.
C1_TerminalIsFinal ==
    [][\A d \in DOMAIN activeDownloads :
            Terminal(activeDownloads[d]) => activeDownloads'[d] = activeDownloads[d]]_vars

\* C2: every task that was created eventually is Completed with a filename or
\* Error with an error message, given that the process events are delivered
\* and the awaits settle.
C2_EveryTaskEnds ==
    \A d \in DownloadIds :
        (d \in DOMAIN activeDownloads)
            ~> (/\ d \in DOMAIN activeDownloads
                /\ \/ /\ activeDownloads[d].status = "Completed"
                      /\ "filename" \in DOMAIN activeDownloads[d]
                   \/ /\ activeDownloads[d].status = "Error"
                      /\ "error" \in DOMAIN activeDownloads[d])

\* the frames of a stream hold at most one terminal frame, it is the last
\* one, and with it the timer is stopped and the response ended
StreamFramesOk(st) ==
    /\ \A i \in 1..Len(st.frames) :
            Terminal(st.frames[i]) => i = Len(st.frames) /\ ~st.timer /\ st.ended
    /\ st.ended => Len(st.frames) > 0 /\ Terminal(st.frames[Len(st.frames)])

TargetTerminal(st) ==
    /\ st.downloadId \in DOMAIN activeDownloads
    /\ Terminal(activeDownloads[st.downloadId])

\* C3: a stream whose task has reached a terminal state writes a terminal
\* frame unless the client disconnects first; the terminal frame is the
\* stream's last frame and its only terminal one, and the timer is stopped and
\* the response ended with it.
C3_StreamEndsWithTerminalFrame ==
    /\ [](\A sid \in DOMAIN streams : StreamFramesOk(streams[sid]))
    /\ \A sid \in {"s1"} :
          (sid \in DOMAIN streams /\ TargetTerminal(streams[sid]))
            ~> (sid \in DOMAIN streams /\ (streams[sid].ended \/ streams[sid].closed))

C3_Witness ==
    \E sid \in DOMAIN streams :
        /\ streams[sid].ended
        /\ ~streams[sid].closed
        /\ Len(streams[sid].frames) >= 2
        /\ Terminal(streams[sid].frames[Len(streams[sid].frames)])

\* C4: the progress of every task is a number from 0 to 100.
C4_ProgressInRange ==
    \A d \in DOMAIN activeDownloads :
        LET p == activeDownloads[d].progress
        IN  p.den > 0 /\ 0 <= p.num /\ p.num <= 100 * p.den

\* C5: a request whose format_id starts with "cobalt_" never spawns the
\* extractor and calls the bypass API; any other request spawns the extractor
\* once and fetches nothing.
C5_OneBranch ==
    \A d \in DOMAIN activeDownloads :
        IF /\ Len(request[d].format_id) >= 7
           /\ SubSeq(request[d].format_id, 1, 7) = "cobalt_"
        THEN /\ spawned[d] = << >>
             /\ Len(fetched[d]) \in {1, 2}
             /\ fetched[d][1].url = "https://api.cobalt.tools/api/json"
        ELSE /\ Len(spawned[d]) = 1
             /\ fetched[d] = << >>

C5_Witness ==
    \E d, e \in DOMAIN activeDownloads :
        /\ request[d].format_id = "cobalt"
        /\ Len(spawned[d]) = 1
        /\ request[e].format_id = "cobalt_video_720"
        /\ Len(fetched[e]) = 2

\* C6: after the extractor closed without a spawn error: code 0 with a file
\* named after the download gives Completed, progress 100 and that file's
\* name; code 0 without such a file gives Error "File not found after
\* download."; another code gives Error "Download failed.", progress 0.
C6_CloseOutcome ==
    \A d \in DOMAIN activeDownloads :
        pc[d] = "closed" =>
            LET t == activeDownloads[d]
                mine == {f \in files : Len(f) >= Len(d) /\ SubSeq(f, 1, Len(d)) = d}
            IN  IF proc[d].exitCode = 0 /\ mine # {}
                THEN /\ DOMAIN t = {"progress", "status", "filename"}
                     /\ t.progress = Num(100)
                     /\ t.status = "Completed"
                     /\ t.filename \in mine
                ELSE /\ DOMAIN t = {"progress", "status", "error"}
                     /\ t.progress = Num(0)
                     /\ t.status = "Error"
                     /\ t.error = IF proc[d].exitCode = 0
                                  THEN "File not found after download."
                                  ELSE "Download failed."

C6_Witness ==
    \E d \in DOMAIN activeDownloads :
        /\ pc[d] = "closed"
        /\ proc[d].exitCode = 0
        /\ activeDownloads[d].status = "Completed"
        /\ Cardinality({f \in files : StartsWith(f, d)}) = 2

\* C7: after a failed spawn the task keeps the error message of the spawn
\* failure, whatever events follow.
C7_SpawnErrorKept ==
    \A d \in DOMAIN activeDownloads :
        proc[d].errored =>
            /\ activeDownloads[d].status = "Error"
            /\ activeDownloads[d].error =
                    IF proc[d].err = "ENOENT"
                    THEN "yt-dlp is not installed on the server."
                    ELSE "Failed to execute yt-dlp."

\* C8: a request of /api/info gets at most one response, and once a handler
\* of the process has run the response is there and comes from the handler
\* that ran first.
C8_OneResponse ==
    \A rid \in InfoIds :
        LET r == info[rid]
        IN  /\ Len(r.responses) <= 1
            /\ Len(r.fired) > 0 /\ r.pc # "awaitOembed" =>
                    Len(r.responses) = 1 /\ r.responses[1].by = r.fired[1]

C8_Witness ==
    \E rid \in InfoIds :
        /\ info[rid].fired = <<"error", "close">>
        /\ Len(info[rid].responses) = 1

\* the fallback condition, from the recognised platforms and the signatures
FallbackCondition(url, stderr) ==
    \/ \E platform \in {"youtube.com", "youtu.be", "instagram.com", "tiktok.com",
                         "twitter.com", "x.com"} : Includes(url, platform)
    \/ \E signature \in {"Sign in to confirm", "HTTP Error 403", "bot", "Login required",
                          "HTTP Error 401"} : Includes(stderr, signature)
    \/ Includes(ToLowerCase(stderr), "redirecting to login")

\* the 'close' handler ran first, with a non-zero code
ClosedNonZero(r) == Len(r.fired) > 0 /\ r.fired[1] = "close" /\ r.exitCode # 0

\* C9: after a non-zero exit the response is the fallback (200 with the six
\* bypass formats) exactly when the URL names a recognised platform or
\* stderr holds a bot or auth signature, and is a 400 otherwise.
C9_FallbackIff ==
    \A rid \in InfoIds :
        LET r == info[rid]
        IN  ClosedNonZero(r) =>
                IF FallbackCondition(r.url, r.stderr)
                THEN \/ r.pc = "awaitOembed" /\ r.responses = << >>
                     \/ /\ Len(r.responses) = 1
                        /\ r.responses[1].status = 200
                        /\ r.responses[1].formats = FallbackFormats
                ELSE /\ Len(r.responses) = 1
                     /\ r.responses[1].status = 400

C9_Witness ==
    \E rid \in InfoIds :
        /\ ClosedNonZero(info[rid])
        /\ info[rid].url = "https://vimeo.com/1"
        /\ Includes(info[rid].stderr, "HTTP Error 403")
        /\ Len(info[rid].responses) = 1
        /\ info[rid].responses[1].status = 200

\* C10: without the fallback, the 400 response carries the message of the
\* first rule that matches stderr, in the order Unsupported URL, Video
\* unavailable, Private video, else the generic message; details is the first
\* 200 characters of stderr.
C10_Classified ==
    \A rid \in InfoIds :
        LET r == info[rid]
            unsupported == Includes(r.stderr, "Unsupported URL")
            unavailable == Includes(r.stderr, "Video unavailable")
            private == Includes(r.stderr, "Private video")
        IN  ClosedNonZero(r) /\ ~FallbackCondition(r.url, r.stderr) =>
                /\ Len(r.responses) = 1
                /\ LET res == r.responses[1]
                   IN  /\ res.status = 400
                       /\ unsupported =>
                            res.error = "The provided URL is not supported by the extractor."
                       /\ ~unsupported /\ unavailable =>
                            res.error = "The video is unavailable, private, or deleted."
                       /\ ~unsupported /\ ~unavailable /\ private =>
                            res.error = "This video is private and requires authentication."
                       /\ ~unsupported /\ ~unavailable /\ ~private =>
                            res.error = "Failed to extract media info. Ensure the URL is valid and supported."
                       /\ Len(res.details) = Min(200, Len(r.stderr))
                       /\ SubSeq(r.stderr, 1, Len(res.details)) = res.details

C10_Witness ==
    \E rid \in InfoIds :
        /\ ClosedNonZero(info[rid])
        /\ Len(info[rid].responses) = 1
        /\ info[rid].responses[1].status = 400
        /\ Len(info[rid].stderr) > 200
        /\ Len(info[rid].responses[1].details) = 200
        /\ info[rid].responses[1].error = "This video is private and requires authentication."

\* C11: a progress stream whose identifier has no entry in the task map has
\* written no frame and was not ended by the server, and its interval timer
\* is set for as long as the client has not disconnected.
C11_UnknownIdSilent ==
    \A sid \in DOMAIN streams :
        streams[sid].downloadId \notin DOMAIN activeDownloads =>
            /\ streams[sid].frames = << >>
            /\ ~streams[sid].ended
            /\ streams[sid].timer <=> ~streams[sid].closed

C11_Witness ==
    \E sid \in DOMAIN streams :
        /\ streams[sid].downloadId = UnknownId
        /\ streams[sid].timer
        /\ \E d \in DOMAIN activeDownloads : Terminal(activeDownloads[d])

\* the stream sid exists and the task it watches is Completed or Error
WatchedTerminal(sid) ==
    /\ sid \in DOMAIN streams
    /\ streams[sid].downloadId \in DOMAIN activeDownloads
    /\ Terminal(activeDownloads[streams[sid].downloadId])

\* C12: the step in which a progress stream is closed changes nothing of the
\* downloads; the task watched by a closed stream still becomes Completed or
\* Error; a stream that finds the task terminal writes the task as it then is,
\* that frame is its first and only one, and the response is ended with it
\* (unless the client closes that stream first).
C12_DisconnectHarmless ==
    /\ [][\A sid \in DOMAIN streams :
            ~streams[sid].closed /\ streams'[sid].closed => UNCHANGED dlVars]_vars
    /\ [][\A sid \in DOMAIN streams :
            Len(streams'[sid].frames) > Len(streams[sid].frames) =>
                /\ streams'[sid].frames =
                        Append(streams[sid].frames, activeDownloads[streams[sid].downloadId])
                /\ Terminal(activeDownloads[streams[sid].downloadId]) =>
                        streams'[sid].ended /\ ~streams'[sid].timer]_vars
    /\ \A sid \in {"s1", "s2"} :
            (sid \in DOMAIN streams /\ streams[sid].closed) ~> WatchedTerminal(sid)
    /\ \A sid \in {"s1", "s2"} :
            (WatchedTerminal(sid) /\ streams[sid].frames = << >>)
                ~> /\ sid \in DOMAIN streams
                   /\ \/ streams[sid].closed
                      \/ /\ streams[sid].ended
                         /\ Len(streams[sid].frames) = 1
                         /\ Terminal(streams[sid].frames[1])
    /\ [](\A sid \in DOMAIN streams :
            streams[sid].frames # << >> /\ Terminal(streams[sid].frames[1]) =>
                Len(streams[sid].frames) = 1 /\ streams[sid].ended)

C12_Witness ==
    /\ DOMAIN streams = {"s1", "s2"}
    /\ streams["s1"].closed
    /\ ~streams["s1"].ended
    /\ Len(streams["s1"].frames) = 1
    /\ streams["s2"].ended
    /\ Len(streams["s2"].frames) = 1
    /\ streams["s2"].frames[1].status = "Completed"

\* what the flow of download d holds besides its map entry
FlowState(d) ==
    <<request[d], pc[d], httpResponse[d], spawned[d], fetched[d], transfer[d], proc[d]>>

\* C13: with concurrent downloads, a step changes at most one entry of the
\* task map, and a step of the flow of one download changes no entry of
\* another download.
C13_Isolation ==
    [][LET changed == {d \in DOMAIN activeDownloads' :
                            \/ d \notin DOMAIN activeDownloads
                            \/ activeDownloads'[d] # activeDownloads[d]}
       IN  /\ Cardinality(changed) <= 1
           /\ DOMAIN activeDownloads \subseteq DOMAIN activeDownloads'
           /\ \A e \in DownloadIds :
                    FlowState(e)' # FlowState(e) => changed \subseteq {e}]_vars

C13_Witness ==
    /\ DOMAIN activeDownloads = DownloadIds
    /\ pc[IdSeq[1]] = "spawned"
    /\ activeDownloads[IdSeq[1]].status = "Merging"
    /\ pc[IdSeq[2]] = "done"
    /\ activeDownloads[IdSeq[2]].status = "Error"

\* the request of download d asks for a format of the bypass fallback
BypassRequested(d) ==
    /\ Len(request[d].format_id) >= 7
    /\ SubSeq(request[d].format_id, 1, 7) = "cobalt_"

\* C14: a download of the bypass branch has been answered 200 with its
\* identifier and with nothing else, and when its flow has ended without
\* Completed its task is {progress 0, status Error, error} with a non-empty
\* error message.
C14_BypassFailure ==
    \A d \in DOMAIN activeDownloads :
        BypassRequested(d) =>
            /\ httpResponse[d] = << [status |-> 200, downloadId |-> d] >>
            /\ pc[d] = "done" /\ activeDownloads[d].status # "Completed" =>
                    /\ DOMAIN activeDownloads[d] = {"progress", "status", "error"}
                    /\ activeDownloads[d].progress = [num |-> 0, den |-> 1]
                    /\ activeDownloads[d].status = "Error"
                    /\ activeDownloads[d].error # ""

C14_Witness ==
    /\ DOMAIN activeDownloads = DownloadIds
    /\ \A d \in DownloadIds : BypassRequested(d) /\ pc[d] = "done"
    /\ activeDownloads[IdSeq[1]].status = "Error"
    /\ activeDownloads[IdSeq[1]].error = "Bypass server failed to process this video."
    /\ transfer[IdSeq[1]].downloadedSize > 0
    /\ activeDownloads[IdSeq[2]].status = "Error"
    /\ activeDownloads[IdSeq[2]].error = "No download URL returned from bypass server"

\* C15: in the bypass branch with a known total size, the progress recorded
\* while the body is streamed equals 30 + (received / total) * 69 and lies
\* from 30 to 99, being 99 exactly when received equals total; progress 100
\* is only recorded together with status Completed.
C15_TransferBand ==
    \A d \in DOMAIN activeDownloads :
        BypassRequested(d) =>
            LET p == activeDownloads[d].progress
                total == transfer[d].totalSize
                received == transfer[d].downloadedSize
            IN  /\ p.num = 100 * p.den => activeDownloads[d].status = "Completed"
                /\ /\ pc[d] = "reading"
                   /\ total.den = 1
                   /\ total.num > 0
                   /\ received > 0
                   => /\ p.den > 0
                      /\ p.num * total.num = (30 * total.num + received * 69) * p.den
                      /\ 30 * p.den <= p.num
                      /\ p.num <= 99 * p.den
                      /\ p.num = 99 * p.den <=> received = total.num

\* C16: the extractor of download d is spawned with -o followed by
\* <d>_%(ext)s in the downloads directory and with -f followed by format_id
\* itself when needs_merge is false or absent, and by format_id with
\* "+bestaudio/best" appended when needs_merge is true.
C16_SpawnArguments ==
    \A d \in DOMAIN activeDownloads :
        \A k \in 1..Len(spawned[d]) :
            LET args == spawned[d][k]
                merge == "needs_merge" \in DOMAIN request[d] /\ request[d].needs_merge
            IN  /\ Len(args) >= 4
                /\ args[1] = "-f"
                /\ args[2] = (IF merge THEN request[d].format_id \o "+bestaudio/best"
                              ELSE request[d].format_id)
                /\ args[3] = "-o"
                /\ args[4] = "downloads/" \o d \o "_%(ext)s"

C16_Witness ==
    /\ DOMAIN activeDownloads = DownloadIds
    /\ request[IdSeq[1]] = [url |-> "https://youtu.be/a", format_id |-> "22", needs_merge |-> TRUE]
    /\ spawned[IdSeq[1]][1][2] = "22+bestaudio/best"
    /\ "needs_merge" \notin DOMAIN request[IdSeq[2]]
    /\ Len(spawned[IdSeq[2]]) = 1
    /\ spawned[IdSeq[2]][1][2] = "22"
    /\ spawned[IdSeq[2]][1][4] = "downloads/d2_%(ext)s"

\* C17: every task has an error field exactly when its status is Error and a
\* filename field exactly when its status is Completed, and its status is one
\* of Starting, Downloading, Merging, Bypassing Bot Detection..., Downloading
\* from Bypass Server..., Completed, Error.
C17_TaskShape ==
    \A d \in DOMAIN activeDownloads :
        LET t == activeDownloads[d]
        IN  /\ {"progress", "status"} \subseteq DOMAIN t
            /\ t.status \in {"Starting", "Downloading", "Merging", "Bypassing Bot Detection...",
                              "Downloading from Bypass Server...", "Completed", "Error"}
            /\ "error" \in DOMAIN t <=> t.status = "Error"
            /\ "filename" \in DOMAIN t <=> t.status = "Completed"

C17_Witness ==
    /\ DOMAIN activeDownloads = DownloadIds
    /\ activeDownloads[IdSeq[1]].status = "Completed"
    /\ activeDownloads[IdSeq[1]].filename = "d1_webm"
    /\ activeDownloads[IdSeq[2]].status = "Error"
    /\ activeDownloads[IdSeq[2]].error = "Bypass API failed with status 429"

\* C18: a POST /api/download body with a missing or malformed url, with a
\* format_id that is no string or with a needs_merge that is no boolean is
\* answered 400 "Invalid input." in a step that leaves the task map alone and
\* starts no process and no transfer, and no task ever stems from such a body;
\* a POST /api/info body with a missing or malformed url is answered 400
\* "Invalid URL provided." and nothing else, with no extractor spawned.
C18_ValidationNoEffect ==
    /\ [][rejected' # rejected =>
            /\ rejected' \in {[status |-> 400, error |-> "Invalid input.", body |-> raw] :
                                raw \in InvalidBodies}
            /\ UNCHANGED dlVars]_vars
    /\ [](\A d \in DOMAIN activeDownloads :
            [f \in DOMAIN request[d] |->
                IF f = "needs_merge" THEN [boolean |-> request[d][f]]
                ELSE [string |-> request[d][f]]] \notin InvalidBodies)
    /\ [](\A rid \in InfoIds :
            info[rid].body \in InvalidInfoBodies =>
                /\ info[rid].spawns = 0
                /\ info[rid].pc = "closed"
                /\ info[rid].fired = << >>
                /\ Len(info[rid].responses) = 1
                /\ info[rid].responses[1].status = 400
                /\ info[rid].responses[1].error = "Invalid URL provided.")

C18_Witness ==
    /\ rejected.status = 400
    /\ "needs_merge" \in DOMAIN rejected.body
    /\ activeDownloads = << >>
    /\ spawned = [d \in DownloadIds |-> << >>]
    /\ fetched = [d \in DownloadIds |-> << >>]
    /\ \E rid \in InfoIds :
            /\ info[rid].body = [url |-> [string |-> "https://"]]
            /\ Len(info[rid].responses) = 1

\* the request r was answered with the formats of the metadata document
AnsweredWithFormats(r) ==
    /\ r.pc = "closed"
    /\ r.exitCode = 0
    /\ r.stdout.kind = "json"
    /\ Len(r.responses) = 1
    /\ r.responses[1].status = 200

\* C19: every raw format of the metadata document is mapped to one entry in
\* which at most one of video_only, audio_only and combined is true: vcodec
\* 'none' with another acodec gives audio_only alone, acodec 'none' with
\* another vcodec gives video_only alone, neither 'none' gives combined alone,
\* both 'none' gives none of the three.
C19_OneCategory ==
    \A rid \in InfoIds :
        LET r == info[rid]
        IN  AnsweredWithFormats(r) =>
                /\ Len(r.responses[1].formats) = Len(r.stdout.formats)
                /\ \A i \in 1..Len(r.stdout.formats) :
                        LET raw == r.stdout.formats[i]
                            out == r.responses[1].formats[i]
                            noVideo == "vcodec" \in DOMAIN raw /\ raw.vcodec = "none"
                            noAudio == "acodec" \in DOMAIN raw /\ raw.acodec = "none"
                        IN  /\ out.format_id = raw.format_id
                            /\ Cardinality({c \in {"video_only", "audio_only", "combined"} :
                                                out[c]}) <= 1
                            /\ out.audio_only <=> noVideo /\ ~noAudio
                            /\ out.video_only <=> noAudio /\ ~noVideo
                            /\ out.combined <=> ~noVideo /\ ~noAudio

C19_Witness ==
    \E rid \in InfoIds :
        /\ AnsweredWithFormats(info[rid])
        /\ info[rid].stdout.formats[1] =
                [format_id |-> "137", ext |-> "mp4", vcodec |-> "avc1", acodec |-> "none"]
        /\ info[rid].responses[1].formats[1].video_only
        /\ ~info[rid].responses[1].formats[1].combined

\* the displayed progress state p is Completed or Error
ShownTerminal(p) == "status" \in DOMAIN p /\ p.status \in {"Completed", "Error"}

\* the step is a failure of the progress stream's connection
ConnectionFails == client.es.state = "open" /\ client'.es.state = "failed"

\* C20: when the connection of the progress stream fails and no Completed or
\* Error state is displayed, the displayed progress state becomes status Error
\* with error "Lost connection to server", also when no frame has arrived yet;
\* a failure leaves a displayed Completed or Error state as it is.
C20_LostConnectionShown ==
    /\ [][ConnectionFails /\ ~ShownTerminal(client.progress) =>
            /\ {"status", "error"} \subseteq DOMAIN client'.progress
            /\ client'.progress.status = "Error"
            /\ client'.progress.error = "Lost connection to server"]_vars
    /\ [][ConnectionFails /\ ShownTerminal(client.progress) =>
            client'.progress = client.progress]_vars

\* C21: in every entry mapped from a raw format, vcodec and acodec are the
\* codec name the raw format carries, and 'none' when the raw format carries
\* none; a raw format without a codec is put in the category of a format
\* whose codec is 'none'.
C21_CodecOrNone ==
    \A rid \in InfoIds :
        LET r == info[rid]
        IN  AnsweredWithFormats(r) =>
                \A i \in 1..Len(r.stdout.formats) :
                    LET raw == r.stdout.formats[i]
                        out == r.responses[1].formats[i]
                        v == IF "vcodec" \in DOMAIN raw THEN raw.vcodec ELSE "none"
                        a == IF "acodec" \in DOMAIN raw THEN raw.acodec ELSE "none"
                    IN  /\ out.vcodec = v
                        /\ out.acodec = a
                        /\ out.video_only <=> v # "none" /\ a = "none"
                        /\ out.audio_only <=> v = "none" /\ a # "none"
                        /\ out.combined <=> v # "none" /\ a # "none"

\* C22: no step removes a key from the task map.
C22_KeysOnlyGrow ==
    [][DOMAIN activeDownloads \subseteq DOMAIN activeDownloads']_vars

C22_Witness ==
    \E sid \in DOMAIN streams :
        /\ streams[sid].ended
        /\ streams[sid].closed
        /\ streams[sid].downloadId \in DOMAIN activeDownloads
        /\ activeDownloads[streams[sid].downloadId].status = "Completed"

\* C23: the interval timer of a stream is cleared once the server has ended
\* the response or the close of the request has been handled, and no step
\* adds a frame to such a stream.
C23_NoFrameAfterEnd ==
    /\ [](\A sid \in DOMAIN streams :
            streams[sid].ended \/ streams[sid].closed => ~streams[sid].timer)
    /\ [][\A sid \in DOMAIN streams :
            streams[sid].ended \/ streams[sid].closed =>
                streams'[sid].frames = streams[sid].frames]_vars

C23_Witness ==
    \E sid \in DOMAIN streams :
        /\ streams[sid].closed
        /\ ~streams[sid].ended
        /\ Len(streams[sid].frames) = 1
        /\ Terminal(activeDownloads[streams[sid].downloadId])
        /\ ~Terminal(streams[sid].frames[1])

\* rank of a status in the order of the bypass branch
BypassRank(status) ==
    CASE status = "Starting" -> 0
      [] status = "Bypassing Bot Detection..." -> 1
      [] status = "Downloading from Bypass Server..." -> 2
      [] status = "Downloading" -> 3
      [] status = "Completed" -> 4
      [] OTHER -> 5

\* C24: the task of a bypass download shows Bypassing Bot Detection... with
\* progress 10, then Downloading from Bypass Server... with progress 30, then
\* Downloading, then Completed, each status reached from the one before it
\* (Completed also straight from Downloading from Bypass Server...); Error is
\* reached from any of the three statuses in between; a terminal task stays
\* as it is; and while the task is not terminal its progress never decreases.
C24_BypassOrder ==
    /\ [](\A d \in DOMAIN activeDownloads :
            BypassRequested(d) =>
                /\ activeDownloads[d].status = "Bypassing Bot Detection..." =>
                        activeDownloads[d].progress = [num |-> 10, den |-> 1]
                /\ activeDownloads[d].status = "Downloading from Bypass Server..." =>
                        activeDownloads[d].progress = [num |-> 30, den |-> 1])
    /\ [][\A d \in DOMAIN activeDownloads' :
            BypassRequested(d)' =>
                IF d \notin DOMAIN activeDownloads
                THEN BypassRank(activeDownloads'[d].status) \in {0, 1}
                ELSE LET old == activeDownloads[d]
                         new == activeDownloads'[d]
                         from == BypassRank(old.status)
                         to == BypassRank(new.status)
                     IN  /\ from \in {4, 5} => new = old
                         /\ to # from =>
                                \/ to = from + 1 /\ to <= 4
                                \/ from = 2 /\ to = 4
                                \/ from \in {1, 2, 3} /\ to = 5
                         /\ to \in {0, 1, 2, 3} =>
                                new.progress.num * old.progress.den
                                    >= old.progress.num * new.progress.den]_vars

C24_Witness ==
    \E d \in DOMAIN activeDownloads :
        /\ BypassRequested(d)
        /\ activeDownloads[d].status = "Completed"
        /\ transfer[d].totalSize = [num |-> 2, den |-> 1]
        /\ transfer[d].downloadedSize = 2

\* index at which the last progress line of the text s starts, 0 when it has none
LastProgressAt(s) ==
    LET hits == {i \in 1..Len(s) : MatchAt(s, i)}
    IN  IF hits = {} THEN 0 ELSE CHOOSE j \in hits : \A k \in hits : j >= k

\* index at which the last [Merger] line of the text s starts, 0 when it has none
LastMergerAt(s) ==
    LET hits == {i \in 1..(Len(s) - 7) : SubSeq(s, i, i + 7) = "[Merger]"}
    IN  IF hits = {} THEN 0 ELSE CHOOSE j \in hits : \A k \in hits : j >= k

\* the task that reflects the latest progress or [Merger] line of the chunk
LatestLineTask(old, output) ==
    LET p == LastProgressAt(output)
        m == LastMergerAt(output)
        b == p + 10 + RunLen(SpaceChars, output, p + 10)
    IN  IF p = 0 /\ m = 0 THEN old
        ELSE IF m > p THEN [progress |-> [num |-> 100, den |-> 1], status |-> "Merging"]
        ELSE [progress |-> ParseFloat(SubSeq(output, b, b + RunLen(NumChars, output, b) - 1)),
              status |-> "Downloading"]

\* C25: after a stdout chunk of the extractor has been handled, the task shows
\* the latest progress line or [Merger] line of that chunk, also when the
\* chunk carries several lines; a chunk without such a line leaves the task
\* as it is.
C25_LatestLineWins ==
    [][\A d \in DownloadIds, output \in StdoutChunks :
            YtDlpStdout(d, output) =>
                activeDownloads'[d] = LatestLineTask(activeDownloads[d], output)]_vars

\* the argument lists of all extractor processes spawned so far
SpawnedArgs ==
    UNION {{spawned[d][k] : k \in 1..Len(spawned[d])} : d \in DownloadIds}
        \cup {info[rid].args : rid \in {r \in InfoIds : info[r].spawns > 0}}

\* C26: when YOUTUBE_COOKIES was set and writing the temporary cookie file
\* failed, and when neither the variable nor a local cookies.txt existed at
\* startup, no extractor process of /api/info or /api/download is given the
\* --cookies flag.
C26_NoCookiesNoFlag ==
    ((cookies.env /\ cookies.writeFailed)
        \/ (~cookies.env /\ LocalCookiePath \notin cookies.files))
    => \A args \in SpawnedArgs : \A i \in 1..Len(args) : args[i] # "--cookies"

\* C27: a download that was answered 200 with its identifier has an entry in
\* the task map, in both branches, and so has every identifier a progress
\* stream was opened for, unless it is the identifier of no download.
C27_AnsweredMeansRegistered ==
    /\ \A d \in DownloadIds :
            (\E i \in 1..Len(httpResponse[d]) : httpResponse[d][i].status = 200) =>
                d \in DOMAIN activeDownloads
    /\ \A sid \in DOMAIN streams :
            streams[sid].downloadId \in DownloadIds =>
                streams[sid].downloadId \in DOMAIN activeDownloads

C27_Witness ==
    \E sid \in DOMAIN streams :
        /\ streams[sid].downloadId \in DownloadIds
        /\ Len(streams[sid].frames) = 2
        /\ streams[sid].frames[1].status = "Starting"
        /\ streams[sid].frames[2].status = "Downloading"

\* C28: when a task is Completed, the file its filename names exists in the
\* downloads directory, and in the bypass branch all bytes received have
\* reached that file.
C28_CompletedFileWritten ==
    \A d \in DOMAIN activeDownloads :
        activeDownloads[d].status = "Completed" =>
            /\ activeDownloads[d].filename \in files
            /\ BypassRequested(d) => transfer[d].flushed = transfer[d].downloadedSize

\* what the claim expects of each format identifier of the fallback response
C29_Expected ==
    [cobalt_audio |-> [isAudioOnly |-> TRUE, ext |-> "mp3", vQuality |-> "max"],
     cobalt_video_max |-> [isAudioOnly |-> FALSE, ext |-> "mp4", vQuality |-> "max"],
     cobalt_video_1080 |-> [isAudioOnly |-> FALSE, ext |-> "mp4", vQuality |-> "1080"],
     cobalt_video_720 |-> [isAudioOnly |-> FALSE, ext |-> "mp4", vQuality |-> "720"],
     cobalt_video_480 |-> [isAudioOnly |-> FALSE, ext |-> "mp4", vQuality |-> "480"],
     cobalt_video_360 |-> [isAudioOnly |-> FALSE, ext |-> "mp4", vQuality |-> "360"]]

\* C29: a download requested for one of the six format identifiers of the
\* fallback response takes the bypass branch and never spawns the extractor;
\* its bypass request carries the expected isAudioOnly and vQuality, and its
\* output file is <downloadId>.<ext> with the expected extension.
C29_FallbackFormatsBypass ==
    /\ {FallbackFormats[i].format_id : i \in DOMAIN FallbackFormats} = DOMAIN C29_Expected
    /\ \A d \in DOMAIN activeDownloads :
          request[d].format_id \in DOMAIN C29_Expected =>
            LET e == C29_Expected[request[d].format_id]
            IN  /\ spawned[d] = << >>
                /\ proc[d] = NoProc
                /\ Len(fetched[d]) >= 1
                /\ fetched[d][1].url = CobaltApi
                /\ fetched[d][1].body.isAudioOnly = e.isAudioOnly
                /\ fetched[d][1].body.vQuality = e.vQuality
                /\ transfer[d].filename = d \o "." \o e.ext
                /\ {f \in files : StartsWith(f, d)} \subseteq {d \o "." \o e.ext}
                /\ activeDownloads[d].status = "Completed" =>
                        activeDownloads[d].filename = d \o "." \o e.ext

\* a download of the 480p format of the fallback response has completed and
\* its file was written
C29_Witness ==
    \E d \in DOMAIN activeDownloads :
        /\ request[d].format_id = "cobalt_video_480"
        /\ activeDownloads[d].status = "Completed"
        /\ fetched[d][1].body.vQuality = "480"
        /\ (d \o ".mp4") \in files

\* C30: the client has at most one progress stream open, and once the
\* answers of all the downloads the user triggered have arrived, all of them
\* successful, it tracks the download triggered last: downloadId is that
\* download's identifier and the one stream the effect keeps is its stream,
\* whichever order the answers arrived in.
C30_TracksLastTriggered ==
    (/\ client.clicks = Len(IdSeq)
     /\ client.pending = {}
     /\ client.error = ""
     /\ client.downloadId # NullId)
        => /\ client.downloadId = IdSeq[client.clicks]
           /\ client.es.state = "open" => client.es.id = IdSeq[client.clicks]

====
